---- MODULE Spec2Model ----
(***************************************************************************)
(* Model of dataset_generator.py: the Inventory ledger, session_record,   *)
(* gen_orphan_transaction, write_json_array and the chunk / orphan loops   *)
(* of main.                                                                *)
(*                                                                         *)
(* Random draws are nondeterministic choices.  Fields of the documents     *)
(* that no operation reads back (names, prices, timestamps, geo data) are  *)
(* left out.  rand_hex session ids are modelled as fresh ids (the index of *)
(* the session_record call).                                               *)
(***************************************************************************)
EXTENDS Integers, Sequences, FiniteSets, TLC

\* ------------------------------------------------------------------ bounds
NumProducts == 2      \* --num-products
MaxStock == 2         \* upper end of the stock draw (1000 in the generator)
MaxSessions == 2      \* largest --num-sessions
MaxChunk == 2         \* largest --sessions-chunk-size
MaxTx == 2            \* largest --num-transactions
MaxViews == 4         \* upper end of the n_views draw (14 in the generator)
MaxTimespan == 2      \* largest --timespan-days
MaxClock == 2         \* latest wall-clock second at which a run starts
MaxDuration == 31     \* upper end of the duration draw (3600 in the generator)

\* --------------------------------------------------------- program constants
MinViews == 4         \* make_page_flow: random.randint(4, 14)
MinDuration == 30     \* session_record: duration = random.randint(30, 3600)
PickTries == 5        \* session_record: for _ in range(5)
MaxAdd == 3           \* session_record: random.randint(1, min(3, remaining))
MaxOrphanItems == 3   \* gen_orphan_transaction: n_items = random.randint(1, 3)
OrphanTryFactor == 3  \* gen_orphan_transaction: range(n_items * 3)
MaxOrphanQty == 3     \* gen_orphan_transaction: qty = random.randint(1, 3)
NullSession == 0      \* "session_id": None

VARIABLES
    sess_target,    \* args.num_sessions
    tx_target,      \* args.num_transactions
    chunk_size,     \* args.sessions_chunk_size
    products,       \* inv.products: product_id -> [current_stock, is_active]
    stock0,         \* current_stock of every product as generated
    sold,           \* per product, total quantity of the lines appended to items
    products_json,  \* contents of products.json
    pc,             \* position of the run
    sess_written, chunk_idx, tx_written, tx_first,
    this_chunk,     \* size of the chunk being written
    tx_buffer,      \* transactions gathered during the chunk
    txf,            \* tokens written to transactions.json
    sess_files,     \* sess_files[n + 1]: tokens written to sessions_<n>.json
    wj,             \* write_json_array frame of the chunk: [count, first, k]
    sr,             \* session_record frame
    og,             \* gen_orphan_transaction frame
    call,           \* the last Inventory.reserve call: [pid, qty, ret, before]
    det,            \* two runs started with one seed and configuration
    pf              \* one page flow: [duration, slots, i, views]

vars == <<sess_target, tx_target, chunk_size, products, stock0, sold,
          products_json, pc, sess_written, chunk_idx, tx_written, tx_first,
          this_chunk, tx_buffer, txf, sess_files, wj, sr, og, call, det, pf>>

\* The variables of a run of main.
runVars == <<sess_target, tx_target, chunk_size, products, stock0, sold,
             products_json, pc, sess_written, chunk_idx, tx_written, tx_first,
             this_chunk, tx_buffer, txf, sess_files, wj, sr, og, call>>

\* What no step of a run changes: the arguments, the stock as generated,
\* the pair of runs compared for determinism and the page flow.
cfgVars == <<sess_target, tx_target, chunk_size, stock0, det, pf>>

\* Cap on chunk_idx, reached only by runs whose chunk loop never ends.
MaxChunkIdx == MaxSessions + 2

Min(a, b) == IF a <= b THEN a ELSE b

Max(a, b) == IF a >= b THEN a ELSE b

\* ------------------------------------------------------------ JSON tokens
\* write_json_array and the transactions stream write "[", ",", records, "]".
OpenTok == [t |-> "open"]

SepTok == [t |-> "sep"]

CloseTok == [t |-> "close"]

RecTok(d) == [t |-> "rec", doc |-> d]

\* The records of a token stream, in order.
RECURSIVE Docs(_)
Docs(toks) ==
    IF toks = <<>> THEN <<>>
    ELSE IF Head(toks).t = "rec" THEN <<Head(toks).doc>> \o Docs(Tail(toks))
    ELSE Docs(Tail(toks))

\* ------------------------------------------------------- Inventory ledger
\* in_stock without the stock comparison.
in_stock_nostock(P, pid, qty) ==
    /\ pid \in DOMAIN P
    /\ P[pid].is_active

\* in_stock without the is_active test.
in_stock_noactive(P, pid, qty) ==
    /\ pid \in DOMAIN P
    /\ P[pid].current_stock >= qty

\* Inventory.in_stock: bool(p) and p["current_stock"] >= qty and p["is_active"] is True
in_stock(P, pid, qty) ==
    /\ pid \in DOMAIN P
    /\ P[pid].current_stock >= qty
    /\ P[pid].is_active

\* reserve deactivating only below 0: a product drained to 0 stays active.
reserve_keep_active(P, pid, qty) ==
    IF ~in_stock(P, pid, qty) THEN [ret |-> FALSE, products |-> P]
    ELSE LET left == P[pid].current_stock - qty
         IN  IF left < 0
             THEN [ret |-> TRUE,
                   products |-> [P EXCEPT ![pid] = [current_stock |-> 0, is_active |-> FALSE]]]
             ELSE [ret |-> TRUE,
                   products |-> [P EXCEPT ![pid].current_stock = left]]

\* reserve decrementing before it checks: a refused call still takes stock.
reserve_eager(P, pid, qty) ==
    IF pid \notin DOMAIN P THEN [ret |-> FALSE, products |-> P]
    ELSE LET left == Max(P[pid].current_stock - qty, 0)
             after == [P EXCEPT ![pid] = [current_stock |-> left,
                                          is_active |-> @.is_active /\ left > 0]]
         IN  [ret |-> in_stock(P, pid, qty), products |-> after]

\* Inventory.reserve: the return value and the ledger after the call.
reserve(P, pid, qty) ==
    IF ~in_stock(P, pid, qty) THEN [ret |-> FALSE, products |-> P]
    ELSE LET left == P[pid].current_stock - qty
         IN  IF left <= 0
             THEN [ret |-> TRUE,
                   products |-> [P EXCEPT ![pid] = [current_stock |-> 0, is_active |-> FALSE]]]
             ELSE [ret |-> TRUE,
                   products |-> [P EXCEPT ![pid].current_stock = left]]

\* gen_products: the stock / is_active fields of one generated product.
\* stock is random.randint(10, 1000), scaled here to 1..MaxStock.
gen_product(stock, active, zeroed) ==
    LET st == IF ~active /\ zeroed THEN 0 ELSE stock
    IN  [current_stock |-> st, is_active |-> active /\ st > 0]

GenProducts ==
    {gen_product(st, a, z) : st \in 1..MaxStock, a \in BOOLEAN, z \in BOOLEAN}

\* --------------------------------------------------------------- frames
NoCall == [pid |-> 0, qty |-> 0, ret |-> FALSE, before |-> <<>>]

NoWj == [count |-> 0, first |-> TRUE, k |-> 0]

NoSr == [session_id |-> 0, nviews |-> 0, i |-> 0, last |-> "none",
         did_checkout |-> FALSE, cart |-> <<>>, converted |-> FALSE,
         status |-> "none", line |-> 0, items |-> <<>>, tx |-> FALSE]

NoOg == [n_items |-> 0, tries |-> 0, items |-> <<>>, before |-> <<>>]

NoDet == [timespan |-> 0, draws |-> <<>>, now |-> <<>>, step |-> <<>>, out |-> <<>>]

NoPf == [duration |-> 0, slots |-> <<>>, i |-> 0, views |-> <<>>]


\* ------------------------------------------------------- weighted_choice
\* random.random() in [0, 1), in percent; every weight is a multiple of 5.
RDraws == {5 * k : k \in 0..19}

\* weighted_choice(choices): the first value whose cumulative weight reaches r,
\* else the last value.  choices is a sequence of <<value, weight>>.
RECURSIVE wc_from(_, _, _, _)
wc_from(choices, r, j, total) ==
    IF j > Len(choices) THEN choices[Len(choices)][1]
    ELSE IF r <= total + choices[j][2] THEN choices[j][1]
    ELSE wc_from(choices, r, j + 1, total + choices[j][2])

weighted_choice(choices, r) == wc_from(choices, r, 1, 0)

AfterCart == << <<"checkout", 35>>, <<"product_detail", 40>>, <<"search", 25>> >>

AfterCheckout == << <<"checkout", 20>>, <<"cart", 30>>, <<"product_detail", 50>> >>

Otherwise == << <<"search", 20>>, <<"category_listing", 25>>,
                <<"product_detail", 40>>, <<"cart", 15>> >>

\* choose_page_type(i, prev) under the draw r; last is prev[-1]["page_type"].
choose_page_type(i, last, r) ==
    IF i = 0 THEN "home"
    ELSE IF last = "cart" THEN weighted_choice(AfterCart, r)
    ELSE IF last = "checkout" THEN weighted_choice(AfterCheckout, r)
    ELSE weighted_choice(Otherwise, r)

\* ------------------------------------------------------- session_record
\* make_page_flow: n_views - 1 cut points are drawn into a set, so the flow
\* has between 1 and n_views - 1 distinct interior points: the number of
\* page views (len(slots) - 1) is one more.
PageFlowViews(n_views) == {m + 1 : m \in 1..(n_views - 1)}

\* The product_detail pick: the first of the drawn candidates that is active
\* and in stock, else the fallback draw.
RECURSIVE pick_from(_, _, _, _)
pick_from(P, draws, fb, j) ==
    IF j > Len(draws) THEN fb
    ELSE IF P[draws[j]].is_active /\ P[draws[j]].current_stock > 0 THEN draws[j]
    ELSE pick_from(P, draws, fb, j + 1)

pick_product(P, draws, fb) == pick_from(P, draws, fb, 1)

ChosenProducts(P) ==
    {pick_product(P, d, fb) : d \in [1..PickTries -> DOMAIN P], fb \in DOMAIN P}

\* cart_contents is kept as the sequence of its entries in insertion order.
RECURSIVE CartIdx(_, _, _)
CartIdx(cart, pid, j) ==
    IF j > Len(cart) THEN 0
    ELSE IF cart[j].product_id = pid THEN j
    ELSE CartIdx(cart, pid, j + 1)

\* if product_id not in cart_contents: cart_contents[product_id] = {"quantity": 0, ...}
cart_entry(cart, pid) ==
    IF CartIdx(cart, pid, 1) = 0
    THEN Append(cart, [product_id |-> pid, quantity |-> 0])
    ELSE cart

\* remaining without the quantity already in the cart.
cart_remaining_ledger(P, cart, pid) == P[pid].current_stock

\* remaining = inv.products[product_id]["current_stock"] - cart_contents[product_id]["quantity"]
cart_remaining(P, cart, pid) ==
    P[pid].current_stock - cart[CartIdx(cart, pid, 1)].quantity

\* The add-to-cart step without the remaining-stock check.
AddQtys_unchecked(remaining) == 1..MaxAdd

\* The quantities the add-to-cart step can add: 1..min(3, remaining), or
\* nothing (0) when remaining <= 0.
AddQtys(remaining) ==
    IF remaining > 0 THEN 1..Min(MaxAdd, remaining) ELSE {0}

cart_add(cart, pid, q) ==
    [cart EXCEPT ![CartIdx(cart, pid, 1)].quantity = @ + q]

\* session_doc["cart_contents"]: the entries with quantity > 0.
doc_cart(cart) == SelectSeq(cart, LAMBDA e : e.quantity > 0)

\* has_cart = any(v["quantity"] > 0 for v in cart_contents.values())
has_cart(cart) == \E j \in 1..Len(cart) : cart[j].quantity > 0

conversion_status(converted, hc) ==
    IF converted THEN "converted"
    ELSE IF hc THEN "abandoned_cart" ELSE "browsing"


\* ------------------------------------------------------------------ Init
\* The state of main when it reaches the chunk loop, for the arguments S
\* (--num-sessions), T (--num-transactions), C (--sessions-chunk-size) and
\* the generated products P: products.json holds P and transactions.json is
\* open with "[" written.
StartRun(S, T, C, P) ==
    /\ sess_target = S
    /\ tx_target = T
    /\ chunk_size = C
    /\ products = P
    /\ stock0 = [p \in DOMAIN P |-> P[p].current_stock]
    /\ sold = [p \in DOMAIN P |-> 0]
    /\ products_json = P
    /\ pc = "chunk_loop"
    /\ sess_written = 0
    /\ chunk_idx = 0
    /\ tx_written = 0
    /\ tx_first = TRUE
    /\ this_chunk = 0
    /\ tx_buffer = <<>>
    /\ txf = <<OpenTok>>
    /\ sess_files = <<>>
    /\ wj = NoWj
    /\ sr = NoSr
    /\ og = NoOg
    /\ call = NoCall

\* The runs of main: det and pf are not used.
OneRun == det = NoDet /\ pf = NoPf

\* The product lists gen_products can return for 1..n products.
Ledgers(n) == UNION {[1..np -> GenProducts] : np \in 1..n}

Init ==
    \E S \in 0..MaxSessions, T \in 0..MaxTx, C \in 0..MaxChunk :
       \E P \in Ledgers(NumProducts) : StartRun(S, T, C, P) /\ OneRun

\* ------------------------------------------------------- main: chunk loop
\* this_chunk without the min: every chunk is a full chunk.
chunk_len_full(size, remaining) == size

\* this_chunk = min(chunk_size, remaining)
chunk_len(size, remaining) == Min(size, remaining)

\* while sess_written < sess_target: this_chunk, tx_buffer = [], and
\* write_json_array opens sessions_<chunk_idx>.json and writes "[".
ChunkBegin ==
    /\ pc = "chunk_loop"
    /\ sess_written < sess_target
    /\ chunk_idx < MaxChunkIdx
    /\ this_chunk' = chunk_len(chunk_size, sess_target - sess_written)
    /\ tx_buffer' = <<>>
    /\ sess_files' = Append(sess_files, <<OpenTok>>)
    /\ wj' = NoWj
    /\ pc' = "chunk_iter"
    /\ UNCHANGED <<cfgVars, products, sold, products_json, sess_written,
                   chunk_idx, tx_written, tx_first, txf, sr, og, call>>

\* iter_sessions_for_chunk: for _ in range(n) calls session_record, which
\* draws the page flow.
SessionBegin ==
    /\ pc = "chunk_iter"
    /\ wj.k < this_chunk
    /\ \E n_views \in MinViews..MaxViews :
         \E nv \in PageFlowViews(n_views) :
            sr' = [NoSr EXCEPT !.session_id = sess_written + wj.count + 1,
                               !.nviews = nv]
    /\ pc' = "page_view"
    /\ UNCHANGED <<cfgVars, products, sold, products_json, sess_written,
                   chunk_idx, tx_written, tx_first, this_chunk, tx_buffer,
                   txf, sess_files, wj, og, call>>

\* One iteration of the slot loop of session_record.
PageView ==
    /\ pc = "page_view"
    /\ sr.i < sr.nviews
    /\ \E ptype \in {choose_page_type(sr.i, sr.last, r) : r \in RDraws} :
         LET seen == [sr EXCEPT !.i = @ + 1, !.last = ptype,
                                !.did_checkout = @ \/ ptype = "checkout"]
         IN  IF ptype # "product_detail"
             THEN sr' = seen
             ELSE \E pid \in ChosenProducts(products) :
                    \E add \in BOOLEAN :
                       IF ~add
                       THEN sr' = seen
                       ELSE LET cart == cart_entry(sr.cart, pid)
                            IN  \E q \in AddQtys(cart_remaining(products, cart, pid)) :
                                   sr' = [seen EXCEPT !.cart = cart_add(cart, pid, q)]
    /\ UNCHANGED <<cfgVars, products, sold, products_json, pc, sess_written,
                   chunk_idx, tx_written, tx_first, this_chunk, tx_buffer,
                   txf, sess_files, wj, og, call>>

\* After the slot loop: has_cart, the conversion draw and session_doc.
Decide ==
    /\ pc = "page_view"
    /\ sr.i = sr.nviews
    /\ \E lucky \in BOOLEAN :
         LET hc == has_cart(sr.cart)
             converted == lucky /\ hc
         IN  /\ sr' = [sr EXCEPT !.converted = converted,
                                 !.status = conversion_status(converted, hc)]
             /\ pc' = IF converted THEN "commit" ELSE "sess_return"
    /\ UNCHANGED <<cfgVars, products, sold, products_json, sess_written,
                   chunk_idx, tx_written, tx_first, this_chunk, tx_buffer,
                   txf, sess_files, wj, og, call>>

\* One iteration of the commit loop: reserve one cart line.
CommitLine ==
    /\ pc = "commit"
    /\ sr.line < Len(doc_cart(sr.cart))
    /\ LET entry == doc_cart(sr.cart)[sr.line + 1]
           pid == entry.product_id
           qty == entry.quantity
           res == reserve(products, pid, qty)
       IN  IF qty <= 0
           THEN /\ sr' = [sr EXCEPT !.line = @ + 1]
                /\ UNCHANGED <<products, sold, call>>
           ELSE /\ products' = res.products
                /\ call' = [pid |-> pid, qty |-> qty, ret |-> res.ret, before |-> products]
                /\ IF res.ret
                   THEN /\ sr' = [sr EXCEPT !.line = @ + 1,
                                            !.items = Append(@, [product_id |-> pid, quantity |-> qty])]
                        /\ sold' = [sold EXCEPT ![pid] = @ + qty]
                   ELSE /\ sr' = [sr EXCEPT !.line = @ + 1]
                        /\ UNCHANGED sold
    /\ UNCHANGED <<cfgVars, products_json, pc, sess_written, chunk_idx,
                   tx_written, tx_first, this_chunk, tx_buffer, txf,
                   sess_files, wj, og>>

\* commit_result without the downgrade of a session that reserved nothing.
commit_result_keep(f) ==
    IF f.items # <<>> THEN [f EXCEPT !.tx = TRUE] ELSE f

\* if items: tx_doc = {...}  else: conversion_status = "abandoned_cart"
commit_result(f) ==
    IF f.items # <<>>
    THEN [f EXCEPT !.tx = TRUE]
    ELSE [f EXCEPT !.status = "abandoned_cart"]

\* After the commit loop: tx_doc if items, else the session is downgraded.
CommitEnd ==
    /\ pc = "commit"
    /\ sr.line = Len(doc_cart(sr.cart))
    /\ sr' = commit_result(sr)
    /\ pc' = "sess_return"
    /\ UNCHANGED <<cfgVars, products, sold, products_json, sess_written,
                   chunk_idx, tx_written, tx_first, this_chunk, tx_buffer,
                   txf, sess_files, wj, og, call>>

\* The documents session_record returns.
session_doc(f) == [session_id |-> f.session_id, conversion_status |-> f.status]

tx_doc(f) == [session_id |-> f.session_id, items |-> f.items]

\* write_item with the separator written before every record.
write_item_sep(toks, first, d) == Append(Append(toks, SepTok), RecTok(d))

\* write_json_array, one item: a separator unless first, then the record.
write_item(toks, first, d) ==
    IF first THEN Append(toks, RecTok(d))
    ELSE Append(Append(toks, SepTok), RecTok(d))

\* The buffering test without the target.
keeps_tx_always(has_tx, written, target) == has_tx

\* if tx_doc and tx_written < tx_target
keeps_tx(has_tx, written, target) == has_tx /\ written < target

\* session_record returns to iter_sessions_for_chunk, which buffers the
\* transaction while the target is unmet and yields the session to
\* write_json_array.
SessionReturn ==
    /\ pc = "sess_return"
    /\ IF keeps_tx(sr.tx, tx_written, tx_target)
       THEN /\ tx_buffer' = Append(tx_buffer, tx_doc(sr))
            /\ tx_written' = tx_written + 1
       ELSE UNCHANGED <<tx_buffer, tx_written>>
    /\ sess_files' = [sess_files EXCEPT ![Len(sess_files)] =
                         write_item(@, wj.first, session_doc(sr))]
    /\ wj' = [count |-> wj.count + 1, first |-> FALSE, k |-> wj.k + 1]
    /\ sr' = NoSr
    /\ pc' = "chunk_iter"
    /\ UNCHANGED <<cfgVars, products, sold, products_json, sess_written,
                   chunk_idx, tx_first, this_chunk, txf, og, call>>

\* The flush writing the buffer from its last transaction to its first.
RECURSIVE flush_reversed(_, _, _)
flush_reversed(toks, first, buf) ==
    IF buf = <<>> THEN toks
    ELSE flush_reversed(write_item(toks, first, buf[Len(buf)]), FALSE,
                        SubSeq(buf, 1, Len(buf) - 1))

\* The flush of tx_buffer into transactions.json.
RECURSIVE flush(_, _, _)
flush(toks, first, buf) ==
    IF buf = <<>> THEN toks
    ELSE flush(write_item(toks, first, Head(buf)), FALSE, Tail(buf))

\* The chunk's iterator is exhausted: write_json_array closes the file and
\* returns count; main adds it to sess_written, flushes tx_buffer and moves
\* to the next chunk index.
ChunkEnd ==
    /\ pc = "chunk_iter"
    /\ wj.k >= this_chunk
    /\ sess_files' = [sess_files EXCEPT ![Len(sess_files)] = Append(@, CloseTok)]
    /\ sess_written' = sess_written + wj.count
    /\ txf' = flush(txf, tx_first, tx_buffer)
    /\ tx_first' = (tx_first /\ tx_buffer = <<>>)
    /\ chunk_idx' = chunk_idx + 1
    /\ wj' = NoWj
    /\ pc' = "chunk_loop"
    /\ UNCHANGED <<cfgVars, products, sold, products_json, tx_written,
                   this_chunk, tx_buffer, sr, og, call>>

\* The chunk loop's condition is false: on to the orphan loop.
ChunksDone ==
    /\ pc = "chunk_loop"
    /\ ~(sess_written < sess_target)
    /\ pc' = "orphan_loop"
    /\ UNCHANGED <<cfgVars, products, sold, products_json, sess_written,
                   chunk_idx, tx_written, tx_first, this_chunk, tx_buffer,
                   txf, sess_files, wj, sr, og, call>>


\* ------------------------------------------------ gen_orphan_transaction
\* while tx_written < tx_target: gen_orphan_transaction draws n_items.
OrphanBegin ==
    /\ pc = "orphan_loop"
    /\ tx_written < tx_target
    /\ \E n \in 1..MaxOrphanItems :
         og' = [n_items |-> n, tries |-> 0, items |-> <<>>, before |-> products]
    /\ pc' = "orphan_pick"
    /\ UNCHANGED <<cfgVars, products, sold, products_json, sess_written,
                   chunk_idx, tx_written, tx_first, this_chunk, tx_buffer,
                   txf, sess_files, wj, sr, call>>

\* The pick loop without its break: it runs all n_items * 3 iterations.
orphan_loop_nobreak(f) ==
    f.tries < f.n_items * OrphanTryFactor

\* for _ in range(n_items * 3): if len(items) >= n_items: break
orphan_loop_on(f) ==
    /\ f.tries < f.n_items * OrphanTryFactor
    /\ Len(f.items) < f.n_items

\* One iteration of the pick loop of gen_orphan_transaction.
OrphanPick ==
    /\ pc = "orphan_pick"
    /\ orphan_loop_on(og)
    /\ \E pid \in DOMAIN products :
         IF ~products[pid].is_active \/ products[pid].current_stock <= 0
         THEN /\ og' = [og EXCEPT !.tries = @ + 1]
              /\ UNCHANGED <<products, sold, call>>
         ELSE \E qty \in 1..MaxOrphanQty :
                LET res == reserve(products, pid, qty)
                IN  /\ products' = res.products
                    /\ call' = [pid |-> pid, qty |-> qty, ret |-> res.ret, before |-> products]
                    /\ IF res.ret
                       THEN /\ og' = [og EXCEPT !.tries = @ + 1,
                                                !.items = Append(@, [product_id |-> pid, quantity |-> qty])]
                            /\ sold' = [sold EXCEPT ![pid] = @ + qty]
                       ELSE /\ og' = [og EXCEPT !.tries = @ + 1]
                            /\ UNCHANGED sold
    /\ UNCHANGED <<cfgVars, products_json, pc, sess_written, chunk_idx,
                   tx_written, tx_first, this_chunk, tx_buffer, txf,
                   sess_files, wj, sr>>

\* gen_orphan_transaction returns: None restarts the loop (continue), a
\* transaction is written to transactions.json and counted.
OrphanReturn ==
    /\ pc = "orphan_pick"
    /\ ~orphan_loop_on(og)
    /\ IF og.items = <<>>
       THEN UNCHANGED <<txf, tx_first, tx_written>>
       ELSE /\ txf' = write_item(txf, tx_first,
                                 [session_id |-> NullSession, items |-> og.items])
            /\ tx_first' = FALSE
            /\ tx_written' = tx_written + 1
    /\ og' = NoOg
    /\ pc' = "orphan_loop"
    /\ UNCHANGED <<cfgVars, products, sold, products_json, sess_written,
                   chunk_idx, this_chunk, tx_buffer, sess_files, wj, sr, call>>

\* The orphan loop's condition is false: transactions.json is closed and
\* products.json is written again from the ledger.
Finish ==
    /\ pc = "orphan_loop"
    /\ ~(tx_written < tx_target)
    /\ txf' = Append(txf, CloseTok)
    /\ products_json' = products
    /\ pc' = "done"
    /\ UNCHANGED <<cfgVars, products, sold, sess_written, chunk_idx,
                   tx_written, tx_first, this_chunk, tx_buffer, sess_files,
                   wj, sr, og, call>>

Next ==
    \/ ChunkBegin
    \/ SessionBegin
    \/ PageView
    \/ Decide
    \/ CommitLine
    \/ CommitEnd
    \/ SessionReturn
    \/ ChunkEnd
    \/ ChunksDone
    \/ OrphanBegin
    \/ OrphanPick
    \/ OrphanReturn
    \/ Finish

Spec == Init /\ [][Next]_vars


\* ------------------------------------------------------------ fair runs
\* The program is sequential: whenever a step is possible it is taken.
\* The fair runs are checked over the one-product catalogues, with one more
\* session than the runs of Spec.
LiveInit ==
    \E S \in 0..(MaxSessions + 1), T \in 0..MaxTx, C \in 0..MaxChunk :
       \E P \in Ledgers(1) : StartRun(S, T, C, P) /\ OneRun

FairSpec == LiveInit /\ [][Next]_vars /\ WF_vars(Next)

\* ------------------------------------------------- the ledger on its own
\* Inventory.reserve called with any product id (known or not) and any
\* quantity >= 1 on any ledger gen_products can build.
LedgerInit ==
    /\ \E P \in Ledgers(NumProducts) : StartRun(0, 0, 0, P)
    /\ OneRun

ReserveCall ==
    /\ \E pid \in 1..(NumProducts + 1), qty \in 1..(MaxStock + 1) :
         LET res == reserve(products, pid, qty)
         IN  /\ products' = res.products
             /\ call' = [pid |-> pid, qty |-> qty, ret |-> res.ret, before |-> products]
    /\ UNCHANGED <<cfgVars, sold, products_json, pc, sess_written, chunk_idx,
                   tx_written, tx_first, this_chunk, tx_buffer, txf,
                   sess_files, wj, sr, og>>

LedgerNext == ReserveCall

LedgerSpec == LedgerInit /\ [][LedgerNext]_vars


\* ------------------------------------------------------------ Scenario A
\* One active product with current_stock 2 and 5 sessions, for any chunk
\* size and transaction target in 1..5.
ScenarioInit ==
    \E T \in 1..5, C \in 1..5 :
       /\ StartRun(5, T, C, [p \in {1} |-> [current_stock |-> 2, is_active |-> TRUE]])
       /\ OneRun

\* The session has put the product in its cart, for 2 units when the ledger
\* holds them.
AttemptsCart ==
    /\ CartIdx(sr.cart, 1, 1) # 0
    /\ products[1].current_stock >= 2 => sr.cart[CartIdx(sr.cart, 1, 1)].quantity = 2

\* Every session of the scenario attempts the cart and, when its cart holds
\* anything, goes on to buy it (the conversion draw succeeds).
ScenarioDecide ==
    /\ AttemptsCart
    /\ Decide
    /\ has_cart(sr.cart) => sr'.converted

ScenarioNext ==
    \/ ChunkBegin
    \/ SessionBegin
    \/ PageView
    \/ ScenarioDecide
    \/ CommitLine
    \/ CommitEnd
    \/ SessionReturn
    \/ ChunkEnd
    \/ ChunksDone
    \/ OrphanBegin
    \/ OrphanPick
    \/ OrphanReturn
    \/ Finish

ScenarioSpec == ScenarioInit /\ [][ScenarioNext]_vars

\* ------------------------------------------------- seed and wall clock
\* Two runs of main with the same seed and the same arguments, started at
\* wall-clock times now[1] and now[2].  A time is [sec, usec].  random and
\* Faker are seeded with args.seed, so both runs get the same raw draws:
\* draws[1] places the first price date of a product in its window and
\* draws[2] places the start of a session in its window.

\* iso(ts): ts.replace(microsecond=0).isoformat()
iso(ts) == ts.sec

\* ts + dt.timedelta(days=d), with whole units of time
plus(ts, d) == [ts EXCEPT !.sec = @ + d]

\* gen_products: creation_start = dt.datetime.now() - dt.timedelta(days=timespan_days * 2)
creation_start(now, timespan) == plus(now, 0 - timespan * 2)

\* The window of the first price date: max(1, timespan_days // 3) days.
price_window(timespan) == Max(1, timespan \div 3)

\* gen_products: price_history[0]["date"], which is also creation_date.
creation_date(now, timespan, draw) == iso(plus(creation_start(now, timespan), draw))

\* session_record: start = fake.date_time_between(start_date=f"-{timespan_days}d",
\* end_date="now"), a window that ends at the wall clock; start_time = iso(start).
start_time(now, timespan, draw) == iso(plus(now, draw - timespan))

Clocks == {[sec |-> c, usec |-> u] : c \in 0..MaxClock, u \in 0..1}

DetInit ==
    /\ StartRun(0, 0, 0, [p \in {1} |-> gen_product(1, TRUE, FALSE)])
    /\ pf = NoPf
    /\ \E ts \in 1..MaxTimespan :
          \E d1 \in 0..price_window(ts), d2 \in 0..ts :
             \E n1 \in Clocks, n2 \in Clocks :
                det = [timespan |-> ts, draws |-> <<d1, d2>>, now |-> <<n1, n2>>,
                       step |-> <<0, 0>>, out |-> << <<>>, <<>> >>]

\* Run r generates its products and writes products.json.
DetProducts(r) ==
    /\ det.step[r] = 0
    /\ det' = [det EXCEPT !.step[r] = 1,
                          !.out[r] = Append(@, creation_date(det.now[r], det.timespan, det.draws[1]))]
    /\ UNCHANGED <<runVars, pf>>

\* Run r generates a session and writes it.
DetSession(r) ==
    /\ det.step[r] = 1
    /\ det' = [det EXCEPT !.step[r] = 2,
                          !.out[r] = Append(@, start_time(det.now[r], det.timespan, det.draws[2]))]
    /\ UNCHANGED <<runVars, pf>>

DetNext == \E r \in 1..2 : DetProducts(r) \/ DetSession(r)

DetSpec == DetInit /\ [][DetNext]_vars

\* --------------------------------------------------------- make_page_flow
\* sorted(S) for a finite set of integers.
RECURSIVE sorted(_)
sorted(S) ==
    IF S = {} THEN <<>>
    ELSE LET least == CHOOSE x \in S : \A y \in S : x <= y
         IN  <<least>> \o sorted(S \ {least})

\* make_page_flow(session_duration) for the cut points drawn:
\* sorted({0, session_duration} | {the n_views - 1 draws})
make_page_flow(session_duration, draws) ==
    sorted({0, session_duration} \cup {draws[j] : j \in DOMAIN draws})

PfInit ==
    /\ StartRun(0, 0, 0, [p \in {1} |-> gen_product(1, TRUE, FALSE)])
    /\ det = NoDet
    /\ \E d \in MinDuration..MaxDuration : pf = [NoPf EXCEPT !.duration = d]

\* slots = make_page_flow(duration): n_views - 1 cut points drawn in
\* 1..duration - 1.
PfMake ==
    /\ pf.slots = <<>>
    /\ \E n_views \in MinViews..MaxViews :
         \E draws \in [1..(n_views - 1) -> 1..(pf.duration - 1)] :
            pf' = [pf EXCEPT !.slots = make_page_flow(pf.duration, draws)]
    /\ UNCHANGED <<runVars, det>>

\* One iteration of the slot loop: the page view at offset slots[i] lasts
\* slots[i + 1] - slots[i].
PfView ==
    /\ pf.slots # <<>>
    /\ pf.i < Len(pf.slots) - 1
    /\ pf' = [pf EXCEPT !.i = @ + 1,
                        !.views = Append(@, [offset |-> pf.slots[pf.i + 1],
                                             view_duration |-> pf.slots[pf.i + 2] - pf.slots[pf.i + 1]])]
    /\ UNCHANGED <<runVars, det>>

PfNext == PfMake \/ PfView

PfSpec == PfInit /\ [][PfNext]_vars

\* ================================================================ claims

\* C1 (Conservation): in every reachable state, for every product the total
\* quantity of the transaction lines committed so far is at most the stock
\* the product was generated with, and current_stock is never negative.
Conservation ==
    \A p \in DOMAIN products :
        /\ sold[p] <= stock0[p]
        /\ products[p].current_stock >= 0

\* A session-linked transaction is written and an orphan transaction has
\* reserved a line, and some stocked product is sold out exactly.
ConservationWitness ==
    /\ Len(Docs(txf)) >= 1
    /\ pc = "orphan_pick"
    /\ og.items # <<>>
    /\ \E p \in DOMAIN products : stock0[p] > 0 /\ sold[p] = stock0[p]

\* C2 (Deactivation monotonicity): a product with current_stock 0 is never
\* active, and no step turns an inactive product active again.
DeactivationMonotone ==
    /\ [](\A p \in DOMAIN products :
             products[p].current_stock = 0 => ~products[p].is_active)
    /\ [][\A p \in DOMAIN products :
             ~products[p].is_active => ~products'[p].is_active]_vars

\* A product generated with stock was drained by the reserves of a session
\* and is inactive with stock 0 when the session returns.
DeactivationWitness ==
    \E p \in DOMAIN products :
        /\ stock0[p] > 0
        /\ sold[p] = stock0[p]
        /\ products[p].current_stock = 0
        /\ ~products[p].is_active
        /\ pc = "sess_return"

\* C3 (reserve contract): for qty >= 1, reserve(pid, qty) returns true exactly
\* when pid exists, is active and has current_stock >= qty before the call;
\* then the stock of pid drops by exactly qty and pid is inactive iff its new
\* stock is 0, every other product being untouched; otherwise the ledger is
\* unchanged.
ReserveContract ==
    call # NoCall =>
        LET b == call.before
            pid == call.pid
            ok == /\ pid \in DOMAIN b
                  /\ b[pid].is_active
                  /\ b[pid].current_stock >= call.qty
        IN  /\ call.ret <=> ok
            /\ call.ret =>
                  /\ products[pid].current_stock = b[pid].current_stock - call.qty
                  /\ ~products[pid].is_active <=> products[pid].current_stock = 0
                  /\ \A q \in DOMAIN b : q # pid => products[q] = b[q]
                  /\ DOMAIN products = DOMAIN b
            /\ ~call.ret => products = b

\* A reserve call that took the whole stock of a product and deactivated it.
ReserveWitness ==
    /\ call.ret
    /\ call.before[call.pid].current_stock = call.qty
    /\ ~products[call.pid].is_active

\* C4 (Single gate): every step that changes a product's current_stock or
\* is_active is a successful Inventory.reserve made by the commit loop of a
\* converted session or by gen_orphan_transaction; the page-view / cart-build
\* phase and every non-converting session leave the ledger unchanged.
SingleGate ==
    [][products' # products =>
          /\ \/ pc = "commit" /\ sr.converted
             \/ pc = "orphan_pick"
          /\ call'.ret
          /\ call'.before = products
          /\ in_stock(products, call'.pid, call'.qty)
          /\ \A q \in DOMAIN products :
                q # call'.pid => products'[q] = products[q]
          /\ products'[call'.pid].current_stock
                = products[call'.pid].current_stock - call'.qty]_vars

\* A session that filled a cart and did not convert returns with the ledger
\* as generated.
SingleGateWitness ==
    /\ pc = "sess_return"
    /\ ~sr.converted
    /\ has_cart(sr.cart)
    /\ products = products_json


\* The session documents written to the sessions_<n>.json files so far.
WrittenSessions ==
    UNION {{Docs(sess_files[n])[j] : j \in 1..Len(Docs(sess_files[n]))} :
           n \in 1..Len(sess_files)}

\* The transactions of transactions.json that carry session id sid.
TxOfSession(sid) ==
    {j \in 1..Len(Docs(txf)) : Docs(txf)[j].session_id = sid}

\* A configuration with positive targets and chunk size.
ValidConfig == sess_target >= 1 /\ tx_target >= 1 /\ chunk_size >= 1

\* C5 (Conversion/transaction correspondence): when a run with positive
\* targets and chunk size is complete, every session written as "converted"
\* has exactly one transaction in transactions.json with its session id, and
\* every transaction with a non-null session_id refers to a session written
\* as "converted".
Correspondence ==
    (pc = "done" /\ ValidConfig) =>
        /\ \A s \in WrittenSessions :
              s.conversion_status = "converted" =>
                  Cardinality(TxOfSession(s.session_id)) = 1
        /\ \A j \in 1..Len(Docs(txf)) :
              Docs(txf)[j].session_id # NullSession =>
                  \E s \in WrittenSessions :
                      /\ s.session_id = Docs(txf)[j].session_id
                      /\ s.conversion_status = "converted"

\* C6 (Downgrade correctness): session_record returns "converted" iff it
\* returns a transaction, which then has at least one reserved line; a
\* session whose cart has entries and whose commit reserved no line is
\* returned "abandoned_cart" without a transaction.
ReturnContract ==
    pc = "sess_return" =>
        /\ sr.status = "converted" <=> sr.tx
        /\ sr.tx => Len(sr.items) >= 1
        /\ (doc_cart(sr.cart) # <<>> /\ sr.items = <<>>) =>
              (sr.status = "abandoned_cart" /\ ~sr.tx)

\* A session that converted, ran the commit loop over a non-empty cart and
\* reserved nothing is returned as abandoned_cart.
ReturnWitness ==
    /\ pc = "sess_return"
    /\ sr.converted
    /\ sr.line >= 1
    /\ sr.items = <<>>
    /\ sr.status = "abandoned_cart"


\* No product is active with stock left: gen_orphan_transaction can only
\* return None.
PoolExhausted ==
    \A p \in DOMAIN products :
        ~(products[p].is_active /\ products[p].current_stock > 0)

\* C7 (Orphan fallback termination): whenever the orphan loop is entered with
\* the transaction target unmet and no product active with stock, the run
\* eventually completes, with fewer transactions than the target.
OrphanFallbackTerminates ==
    (pc = "orphan_loop" /\ tx_written < tx_target /\ PoolExhausted)
        ~> (pc = "done" /\ tx_written < tx_target)


\* C9 (Invalid configuration is fatal): a run whose chunk size, session
\* target or transaction target is non-positive never gets past its start:
\* it generates no session and no orphan transaction, writes no chunk and
\* does not complete.
InvalidConfigAborts ==
    ~ValidConfig =>
        /\ pc \notin {"page_view", "commit", "sess_return", "orphan_pick", "done"}
        /\ chunk_idx = 0

\* The chunk loop has ended.
ChunkLoopDone == pc \in {"orphan_loop", "orphan_pick", "done"}

\* ceil(S / C)
NumChunks(S, C) == (S + C - 1) \div C

\* The number of sessions in sessions_<n - 1>.json.
ChunkCount(n) == Len(Docs(sess_files[n]))

ChunkingInv ==
    (sess_target >= 1 /\ chunk_size >= 1) =>
        /\ sess_written <= sess_target
        /\ ChunkLoopDone =>
              LET k == NumChunks(sess_target, chunk_size)
              IN  /\ sess_written = sess_target
                  /\ Len(sess_files) = k
                  /\ chunk_idx = k
                  /\ \A n \in 1..(k - 1) : ChunkCount(n) = chunk_size
                  /\ ChunkCount(k) = sess_target - (k - 1) * chunk_size

\* C10 (Chunking): for a session target S >= 1 and a chunk size C >= 1 the
\* chunk loop terminates; it has then written exactly S sessions into
\* ceil(S / C) files, each holding C sessions except the last, which holds
\* the rest, and sess_written never exceeds S.
Chunking ==
    /\ []ChunkingInv
    /\ (sess_target >= 1 /\ chunk_size >= 1) ~> ChunkLoopDone

\* The chunk loop has ended after a full chunk and a shorter last chunk.
ChunkingWitness ==
    /\ ChunkLoopDone
    /\ chunk_size >= 2
    /\ Len(sess_files) >= 2
    /\ ChunkCount(Len(sess_files)) < chunk_size
    /\ ChunkCount(1) = chunk_size


\* The session about to return found the product at stock 0: the stock is 0
\* and the session itself reserved nothing.
GeneratedAfterSellout ==
    /\ pc = "sess_return"
    /\ products[1].current_stock = 0
    /\ sr.items = <<>>

\* All the sessions of the run are written and their transactions flushed.
SessionsComplete == pc = "chunk_loop" /\ sess_written = sess_target

\* C8 as stated (Scenario A): exactly one transaction commits, consuming at
\* most 2 units, and every session generated after the stock has reached 0
\* is returned as "abandoned_cart".
ScenarioA_Stated ==
    /\ SessionsComplete => (Len(Docs(txf)) = 1 /\ sold[1] <= 2)
    /\ GeneratedAfterSellout => sr.status = "abandoned_cart"

\* C8 as amended (Scenario A): exactly one transaction commits, consuming at
\* most 2 units, and every session generated after the stock has reached 0
\* is returned as "browsing", with an empty cart and no transaction.
ScenarioA_Browsing ==
    /\ SessionsComplete => (Len(Docs(txf)) = 1 /\ sold[1] <= 2)
    /\ GeneratedAfterSellout =>
          (sr.status = "browsing" /\ doc_cart(sr.cart) = <<>> /\ ~sr.tx)

\* The five sessions are written: the first converted with the one
\* transaction, the four generated after the sell-out are browsing.
ScenarioA_Witness ==
    /\ SessionsComplete
    /\ Len(Docs(txf)) = 1
    /\ products[1].current_stock = 0
    /\ Cardinality({s \in WrittenSessions : s.conversion_status = "browsing"}) = 4
    /\ Cardinality({s \in WrittenSessions : s.conversion_status = "converted"}) = 1


\* The positions of transactions.json that hold orphan transactions.
OrphanPositions == {j \in 1..Len(Docs(txf)) : Docs(txf)[j].session_id = NullSession}

\* The positions of transactions.json that hold session-linked transactions.
LinkedPositions == {j \in 1..Len(Docs(txf)) : Docs(txf)[j].session_id # NullSession}

JsonArray(toks) ==
    LET n == Len(Docs(toks))
    IN  /\ Len(toks) = 2 + n + Max(n - 1, 0)
        /\ toks[1] = OpenTok
        /\ toks[Len(toks)] = CloseTok
        /\ \A k \in 1..n : toks[2 * k].t = "rec"
        /\ \A k \in 1..(n - 1) : toks[2 * k + 1] = SepTok

\* The sessions_<n>.json files write_json_array has returned from.
ClosedFiles ==
    {n \in 1..Len(sess_files) : n < Len(sess_files) \/ pc \notin {"chunk_iter", "page_view", "commit", "sess_return"}}

RECURSIVE SumCounts(_)
SumCounts(n) == IF n = 0 THEN 0 ELSE ChunkCount(n) + SumCounts(n - 1)

\* C12 (Streaming writer): every file write_json_array has finished is a
\* JSON array of its records (brackets, max(n - 1, 0) separators, none
\* leading or trailing), the counts it returned add up to sess_written, and
\* the finished transactions.json is a JSON array too, also when empty.
StreamingWriter ==
    /\ \A n \in ClosedFiles : JsonArray(sess_files[n])
    /\ pc \in {"chunk_loop", "orphan_loop", "orphan_pick", "done"} =>
          sess_written = SumCounts(Len(sess_files))
    /\ pc = "done" => JsonArray(txf)

\* A finished run with a sessions file of two records and a
\* transactions.json of two records.
StreamingWriterWitness ==
    /\ pc = "done"
    /\ Len(Docs(txf)) = 2
    /\ \E n \in ClosedFiles : ChunkCount(n) = 2


IsPrefix(a, b) == Len(a) <= Len(b) /\ SubSeq(b, 1, Len(a)) = a

\* The session ids of a sequence of documents grow along the sequence:
\* session ids are handed out in generation order.
InGenerationOrder(docs) ==
    \A j, k \in 1..Len(docs) : j < k => docs[j].session_id < docs[k].session_id

\* The session-linked transactions of transactions.json, in file order.
LinkedDocs == SelectSeq(Docs(txf), LAMBDA d : d.session_id # NullSession)

\* C13 (Output ordering): the sessions of each chunk file are in generation
\* order, the session-linked transactions of transactions.json are in the
\* generation order of their sessions, no orphan precedes a session-linked
\* transaction, and every write appends: a file only grows at its end, so
\* orphans stay in the order drawn.
OutputOrdering ==
    /\ [](/\ \A n \in 1..Len(sess_files) : InGenerationOrder(Docs(sess_files[n]))
          /\ InGenerationOrder(LinkedDocs)
          /\ \A j \in LinkedPositions : \A k \in OrphanPositions : j < k)
    /\ [][/\ IsPrefix(txf, txf')
          /\ IsPrefix(tx_buffer, tx_buffer') \/ tx_buffer' = <<>>
          /\ \A n \in 1..Len(sess_files) : IsPrefix(sess_files[n], sess_files'[n])]_vars

\* The two sessions of one chunk both converted and their transactions are
\* flushed to transactions.json.
OutputOrderingWitness ==
    /\ Len(LinkedDocs) >= 2
    /\ \E n \in 1..Len(sess_files) : ChunkCount(n) >= 2


\* C14 (Determinism): two runs with the same seed and configuration, once
\* both are complete, have written the same output, whatever the wall-clock
\* times they were started at.
Determinism ==
    (det # NoDet /\ det.step = <<2, 2>>) => det.out[1] = det.out[2]


RECURSIVE SumDurations(_)
SumDurations(views) ==
    IF views = <<>> THEN 0
    ELSE Head(views).view_duration + SumDurations(Tail(views))

\* The slot loop of the page flow has ended.
PfDone == pf.slots # <<>> /\ pf.i = Len(pf.slots) - 1

\* The view durations are >= 1 and add up to the duration; the offsets
\* start at 0 and grow strictly.
PfPartition ==
    /\ \A j \in 1..Len(pf.views) : pf.views[j].view_duration >= 1
    /\ SumDurations(pf.views) = pf.duration
    /\ pf.views[1].offset = 0
    /\ \A j \in 1..(Len(pf.views) - 1) : pf.views[j].offset < pf.views[j + 1].offset

\* C15 (Page flow): for every duration and every outcome of the cut-point
\* draws, the session has between 4 and n_views-max page views, each of
\* view_duration >= 1, summing to the duration, at strictly increasing
\* offsets starting at 0.
PageFlow ==
    PfDone =>
        /\ Len(pf.views) \in MinViews..MaxViews
        /\ PfPartition


\* The lines of an orphan transaction: at most n of them, each of quantity
\* 1..3.
OrphanLines(items, n) ==
    /\ Len(items) <= n
    /\ \A j \in 1..Len(items) : items[j].quantity \in 1..MaxOrphanQty

\* During a call of gen_orphan_transaction, and in transactions.json.
OrphanCall ==
    /\ pc = "orphan_pick" =>
         /\ og.n_items \in 1..MaxOrphanItems
         /\ og.tries <= OrphanTryFactor * og.n_items
         /\ OrphanLines(og.items, og.n_items)
         /\ og.items = <<>> <=> products = og.before
    /\ \A j \in OrphanPositions :
         /\ Docs(txf)[j].items # <<>>
         /\ OrphanLines(Docs(txf)[j].items, MaxOrphanItems)

\* One step of gen_orphan_transaction: a product whose ledger entry changes
\* was active with stock before the step, and the call returns a transaction
\* exactly when the ledger differs from the ledger at the start of the call.
OrphanStep ==
    pc = "orphan_pick" =>
        /\ \A p \in DOMAIN products :
             products'[p] # products[p] =>
                 products[p].is_active /\ products[p].current_stock > 0
        /\ pc' = "orphan_loop" =>
             /\ Len(Docs(txf')) = Len(Docs(txf)) + 1 <=> products # og.before
             /\ Len(Docs(txf')) = Len(Docs(txf)) <=> products = og.before
             /\ products' = products

\* C16 (Orphan transaction): gen_orphan_transaction makes at most 3 * n picks
\* for its target n in 1..3, never reserves from a product that is inactive
\* or at stock 0, and returns a transaction (session_id null, 1..n lines of
\* quantity 1..3) iff a reservation succeeded; when it returns none the
\* ledger is as it was at the start of the call.
OrphanTransaction == []OrphanCall /\ [][OrphanStep]_vars

\* A call that has made two lines after an earlier orphan was written, and
\* whose loop has ended.
OrphanTransactionWitness ==
    /\ pc = "orphan_pick"
    /\ ~orphan_loop_on(og)
    /\ Len(og.items) >= 2
    /\ OrphanPositions # {}


\* The quantity of product p over the lines of one transaction.
RECURSIVE LineQty(_, _)
LineQty(items, p) ==
    IF items = <<>> THEN 0
    ELSE (IF Head(items).product_id = p THEN Head(items).quantity ELSE 0)
         + LineQty(Tail(items), p)

\* The quantity of product p over all lines of a sequence of transactions.
RECURSIVE WrittenQty(_, _)
WrittenQty(docs, p) ==
    IF docs = <<>> THEN 0
    ELSE LineQty(Head(docs).items, p) + WrittenQty(Tail(docs), p)

\* C17 (Stock accounting of the final snapshot): at the end of a run with
\* positive targets and chunk size, for every product the initial
\* current_stock minus the current_stock of the final products.json equals
\* the quantity of that product over all lines of transactions.json.
StockAccounting ==
    (pc = "done" /\ ValidConfig) =>
        \A p \in DOMAIN products :
            stock0[p] - products_json[p].current_stock = WrittenQty(Docs(txf), p)


\* Every entry of the sequence of cart entries from position from on asks for
\* at most the ledger's current_stock of its product.
WithinStock(cart, from) ==
    \A j \in from..Len(cart) :
        cart[j].quantity <= products[cart[j].product_id].current_stock

\* The reserve call of the cart line the commit loop processed last.
LastCommitCall ==
    /\ pc = "commit"
    /\ sr.line >= 1
    /\ call.pid = doc_cart(sr.cart)[sr.line].product_id
    /\ call.qty = doc_cart(sr.cart)[sr.line].quantity

\* C18 (sequential design): every cart line's quantity is at most the
\* ledger's current_stock of its product while the cart is built and when the
\* line is committed in the same session_record call; a commit-time reserve
\* that fails was for an inactive product holding at least the quantity
\* asked.
SequentialCart ==
    /\ pc = "page_view" => WithinStock(sr.cart, 1)
    /\ pc = "commit" =>
         /\ WithinStock(doc_cart(sr.cart), sr.line + 1)
         /\ sr.line >= 1 => LastCommitCall
    /\ (LastCommitCall /\ ~call.ret) =>
         /\ ~call.before[call.pid].is_active
         /\ call.before[call.pid].current_stock >= call.qty
         /\ call.qty >= 1

\* A commit-time reserve refused for an inactive product that holds stock,
\* after an earlier line of the same cart was reserved.
SequentialCartWitness ==
    /\ LastCommitCall
    /\ ~call.ret
    /\ ~call.before[call.pid].is_active
    /\ call.before[call.pid].current_stock >= call.qty
    /\ sr.items # <<>>

====
